---- MODULE Spec2Model ----
(***************************************************************************)
(* Model of the remediation engine of the configuration drift platform     *)
(* (remediation-system/scripts/remediation_engine.py): the phased          *)
(* canary / full rollout of RemediationEngine.run, the per-node sequence   *)
(* of remediate_node (backup, pre-validation, one handler per drift,       *)
(* post-validation, rollback) and the drift handlers.                      *)
(*                                                                         *)
(* The engine issues every command (cp, systemctl, apt, userdel, ...) on   *)
(* the machine it runs on; the node name only selects the backup directory *)
(* and the --limit of the playbook.  The model therefore keeps one machine *)
(* state (files, services, packages, users) and one backup per node name.  *)
(***************************************************************************)
EXTENDS Integers, Sequences, FiniteSets, TLC

\* ------------------------------------------------------------------ bounds

\* Longest detection report drawn by Init (and so the largest number of nodes).
MaxDetections == 2

\* Largest node list given to select_canary_nodes in SpecSelect.
MaxSelectNodes == 4

\* Number of DriftDetector runs in SpecDetect.
MaxDetectionRuns == 2

\* Number of changes made to the machine between the runs in SpecDetect.
MaxDrifts == 1

\* Longest detection report grouped in SpecGroup.
MaxGroupDetections == 3

\* ------------------------------------------------------------ input domains

NodeNames == <<"n1", "n2", "n3", "n4", "n5", "n6">>

\* Every node name a run can meet ("unknown": a detection without a node field).
AllNodes == {NodeNames[i] : i \in 1..Len(NodeNames)} \cup {"unknown"}

ManagedFile == "/var/www/index.html"

UnmanagedFile == "/etc/motd"

\* A file next to a managed directory: "/var/www2" is not below "/var/www",
\* but its name starts with it.
SiblingFile == "/var/www2/index.html"

ServicesStatusFile == "/services.status"

Paths == {ManagedFile, UnmanagedFile, SiblingFile, ServicesStatusFile}

\* remediate_file_changes: managed_dirs, tested with str.startswith
managed_dirs == {"/var/www", "/etc/nginx", "/etc/apache2", "/etc/httpd", "/etc/ansible-managed"}

\* The directories a modelled path lies below.
AncestorsOf(path) ==
    CASE path = ManagedFile -> {"/var", "/var/www"}
      [] path = UnmanagedFile -> {"/etc"}
      [] path = SiblingFile -> {"/var", "/var/www2"}
      [] OTHER -> {}

\* The directory names d for which path.startswith(d): a test on the
\* characters, so a directory matches every path whose name begins with its
\* name.
PrefixesOf(path) ==
    CASE path = SiblingFile -> AncestorsOf(path) \cup {"/var/www"}
      [] OTHER -> AncestorsOf(path)

\* create_backup: backup_paths; the files of the machine below one of them
backup_paths == {"/etc/nginx", "/etc/apache2", "/etc/httpd", "/var/www", "/etc/ansible-managed"}

DriftTypes == {"file_change", "service_status_change", "package_added",
               "package_removed", "user_added", "user_removed"}

\* A detection type the engine has no handler for.
UnknownType == "cron_change"

\* strategies.user_management.preserve_admin_users
preserve_admin_users == {"ubuntu"}

\* remediation.validation.required_services
required_services == {"nginx"}

TargetsOf(type) ==
    CASE type = "file_change" -> {ManagedFile, UnmanagedFile, SiblingFile}
      [] type = "service_status_change" -> {"nginx"}
      [] type = "package_added" -> {"nmap"}
      [] type = "package_removed" -> {"curl"}
      [] type = "user_added" -> {"ubuntu", "mallory"}
      [] type = "user_removed" -> {"deploy"}
      [] OTHER -> {"crontab"}

\* The detections of a report over the first k node names.
Detections(k) ==
    UNION {[type : {t}, node : {NodeNames[i] : i \in 1..k}, target : TargetsOf(t)]
             : t \in DriftTypes \cup {UnknownType}}

\* Number of distinct node names of a report.
NodesUsed(r) == Cardinality({r[i].node : i \in 1..Len(r)})

\* Reports of exactly len detections.  Node names are labels: the first node a
\* report mentions is called n1, the next new one n2, and so on.
RECURSIVE ReportsOfLen(_)
ReportsOfLen(len) ==
    IF len = 0 THEN {<<>>}
    ELSE UNION {{Append(r, d) : d \in Detections(NodesUsed(r) + 1)}
                  : r \in ReportsOfLen(len - 1)}

Reports == UNION {ReportsOfLen(len) : len \in 0..MaxDetections}

Percentages == {50}

Thresholds == {50, 51}

WaitTimes == {0, 1}

\* The options run() and the canary phase read.
RolloutOptions ==
    [enabled : BOOLEAN,
     canary_enabled : BOOLEAN,
     percentage : Percentages,
     success_threshold : Thresholds,
     wait_time_minutes : WaitTimes]

\* The options remediate_node reads, and the safe_mode key main() adds for
\* --safe-mode.
NodeOptions ==
    [pre_remediation_validation : BOOLEAN,
     post_remediation_validation : BOOLEAN,
     backup_before_remediation : BOOLEAN,
     automatic_on_failure : BOOLEAN,
     safe_mode : BOOLEAN]

ReferenceRollout ==
    [enabled |-> TRUE, canary_enabled |-> TRUE, percentage |-> 50,
     success_threshold |-> 50, wait_time_minutes |-> 0]

ReferenceNodeOptions ==
    [pre_remediation_validation |-> TRUE, post_remediation_validation |-> TRUE,
     backup_before_remediation |-> TRUE, automatic_on_failure |-> TRUE,
     safe_mode |-> FALSE]

\* config/remediation_config.yaml as read by __init__: every combination of
\* the rollout options with the reference node options, and every combination
\* of the node options with the reference rollout.
Configs ==
    {r @@ ReferenceNodeOptions : r \in RolloutOptions}
      \cup {ReferenceRollout @@ n : n \in NodeOptions}

\* -------------------------------------------------------------------- state

VARIABLES
    config,               \* self.config (with the safe_mode key of main)
    detection_report,     \* self.detection_report: [loaded, detections]
    files,                \* the machine: path -> content
    services,             \* the machine: service -> "active" | "inactive"
    packages,             \* the machine: installed packages
    users,                \* the machine: user accounts
    backups,              \* backups/pre_remediation/<node>_<id>: node -> captured files
    results_files,        \* remediations/<id>/remediation_<node>.json: node -> results
    remediation_log,      \* self.remediation_log
    commands,             \* the state-changing commands issued so far, in order
    canary_nodes,         \* self.canary_nodes
    remediated_nodes,     \* self.remediated_nodes
    failed_nodes,         \* self.failed_nodes
    nodes_with_drifts,    \* run(): ordered list of [node, drifts]
    pc,                   \* position in run()
    visited,              \* the positions of run() entered so far
    work,                 \* the node list the current phase iterates over
    widx,                 \* index into work of the node being remediated
    node_pc,              \* position in remediate_node
    drift_idx,            \* index of the next drift of the node
    remediation_results,  \* remediate_node: remediation_results (drift, success)
    canary_results,       \* run_canary_remediation: canary_results
    canary_success,       \* run(): canary_success (<<>> before the gate)
    node_exit,            \* node -> the return statement remediate_node left by
    node_result,          \* node -> the value remediate_node returned
    report,               \* the report written by generate_remediation_report
    result,               \* the value run() returned (<<>> while it runs)
    sel_in,               \* SpecSelect: arguments of select_canary_nodes
    sel_out,              \* SpecSelect: its result
    last_state,           \* drift detector: database/last_state.json
    detector              \* drift detector: the last DriftDetector run

machineVars == <<files, services, packages, users, backups, results_files>>

engineVars == <<remediation_log, commands, canary_nodes, remediated_nodes, failed_nodes>>

runVars == <<nodes_with_drifts, pc, visited, work, widx, canary_results, canary_success,
             report, result>>

nodeVars == <<node_pc, drift_idx, remediation_results, node_exit, node_result>>

selVars == <<sel_in, sel_out>>

detVars == <<last_state, detector>>

vars == <<config, detection_report, machineVars, engineVars, runVars, nodeVars, selVars,
          detVars>>

\* ------------------------------------------------------------ initial state

Targets(r, type) == {r[i].target : i \in {j \in 1..Len(r) : r[j].type = type}}

\* The machine a report describes: every reported drift is present, everything
\* else is in its desired state.
MachineOf(r) ==
    [files |-> [p \in Paths |->
                  IF p = ServicesStatusFile THEN "absent"
                  ELSE IF p \in Targets(r, "file_change") THEN "drifted" ELSE "desired"],
     services |-> [s \in required_services |->
                  IF s \in Targets(r, "service_status_change") THEN "inactive" ELSE "active"],
     packages |-> ({"curl"} \ Targets(r, "package_removed")) \cup Targets(r, "package_added"),
     users |-> ({"deploy"} \ Targets(r, "user_removed")) \cup Targets(r, "user_added")]

NoReport == [generated |-> FALSE]

\* Python's None.
None == "None"

\* load_previous_state without a readable database/last_state.json: {}
NoState == [key \in {} |-> None]

\* No DriftDetector has run.
NoDetector == [runs |-> 0, drifts |-> 0, previous_state |-> NoState, saved |-> FALSE,
               observed |-> NoState]

\* __init__ (and main's --safe-mode) with the given configuration, on a machine
\* whose latest detection report is r (loaded = FALSE: none could be loaded).
InitWith(cfg, loaded, r) ==
    /\ config = cfg
    /\ detection_report = [loaded |-> loaded, detections |-> r]
    /\ files = MachineOf(r).files
    /\ services = MachineOf(r).services
    /\ packages = MachineOf(r).packages
    /\ users = MachineOf(r).users
    /\ backups = <<>>
    /\ results_files = <<>>
    /\ remediation_log = <<>>
    /\ commands = <<>>
    /\ canary_nodes = <<>>
    /\ remediated_nodes = <<>>
    /\ failed_nodes = <<>>
    /\ nodes_with_drifts = <<>>
    /\ pc = "start"
    /\ visited = {"start"}
    /\ work = <<>>
    /\ widx = 0
    /\ node_pc = "idle"
    /\ drift_idx = 0
    /\ remediation_results = <<>>
    /\ canary_results = <<>>
    /\ canary_success = <<>>
    /\ node_exit = <<>>
    /\ node_result = <<>>
    /\ report = NoReport
    /\ result = <<>>
    /\ last_state = NoState
    /\ detector = NoDetector

NoSelection == [all_nodes |-> <<>>, enabled |-> FALSE, percentage |-> 0]

Init ==
    /\ \/ \E cfg \in Configs, r \in Reports : InitWith(cfg, TRUE, r)
       \/ \E cfg \in Configs : InitWith(cfg, FALSE, <<>>)
    /\ sel_in = NoSelection
    /\ sel_out = [done |-> FALSE, nodes |-> <<>>]

\* ------------------------------------------------------------------ helpers

\* log_event: the event appended to self.remediation_log
Event(type, node, status) == [type |-> type, node |-> node, status |-> status]

\* A state-changing command run on the machine (subprocess.run, shutil.copy2).
Command(tool, verb, target, node, ok) ==
    [tool |-> tool, verb |-> verb, target |-> target, node |-> node, ok |-> ok]

Max(a, b) == IF a >= b THEN a ELSE b

Min(a, b) == IF a <= b THEN a ELSE b

\* run(): detection.get('node', 'unknown')
NodeOf(d) == IF "node" \in DOMAIN d THEN d.node ELSE "unknown"

\* A grouping step that starts the node's list again at every detection.
GroupAddKeepsLast(g, d) ==
    IF \E i \in 1..Len(g) : g[i].node = NodeOf(d)
    THEN [i \in 1..Len(g) |->
            IF g[i].node = NodeOf(d)
            THEN [node |-> g[i].node, drifts |-> <<d>>]
            ELSE g[i]]
    ELSE Append(g, [node |-> NodeOf(d), drifts |-> <<d>>])

\* run(): one step of the grouping loop, nodes kept in first-appearance order
GroupAdd(g, d) ==
    IF \E i \in 1..Len(g) : g[i].node = NodeOf(d)
    THEN [i \in 1..Len(g) |->
            IF g[i].node = NodeOf(d)
            THEN [node |-> g[i].node, drifts |-> Append(g[i].drifts, d)]
            ELSE g[i]]
    ELSE Append(g, [node |-> NodeOf(d), drifts |-> <<d>>])

\* run(): nodes_with_drifts built from the report's detections
RECURSIVE GroupFrom(_, _)
GroupFrom(g, dets) ==
    IF dets = <<>> THEN g ELSE GroupFrom(GroupAdd(g, Head(dets)), Tail(dets))

GroupByNode(dets) == GroupFrom(<<>>, dets)

\* list(nodes_with_drifts.keys())
Keys(g) == [i \in 1..Len(g) |-> g[i].node]

\* nodes_with_drifts[node]
DriftsOf(g, node) == g[CHOOSE i \in 1..Len(g) : g[i].node = node].drifts

SeqToSet(s) == {s[i] : i \in 1..Len(s)}

CurNode == work[widx]

CurDrifts == DriftsOf(nodes_with_drifts, CurNode)

CurDrift == CurDrifts[drift_idx]

\* ------------------------------------------------------- canary selection

\* The number of canaries with the floor replaced by a ceiling.
num_canary_ceil(n, percentage) == Max(1, (n * percentage + 99) \div 100)

\* select_canary_nodes: num_canary = max(1, int(len(all_nodes) * percentage / 100));
\* int() truncates the non-negative quotient
num_canary(n, percentage) == Max(1, (n * percentage) \div 100)

\* A selection that applies the percentage even when canary is disabled.
select_by_percentage(all_nodes, enabled, percentage) ==
    SubSeq(all_nodes, 1, Min(Len(all_nodes), num_canary(Len(all_nodes), percentage)))

\* select_canary_nodes(all_nodes); all_nodes[:k] is the whole list when k > len
select_canary_nodes(all_nodes, enabled, percentage) ==
    IF ~enabled THEN all_nodes
    ELSE SubSeq(all_nodes, 1, Min(Len(all_nodes), num_canary(Len(all_nodes), percentage)))

\* --------------------------------------------------------- remediate_node

\* remediate_node: the first configured step of a node
AfterBackup == IF config.pre_remediation_validation THEN "pre_validate" ELSE "drifts"

FirstStep == IF config.backup_before_remediation THEN "backup" ELSE AfterBackup

\* A remediate_node that blocks once its drift loop has ended.
BlocksAfterDrifts == "blocked"

\* remediate_node: the step that follows `for drift in drifts`
AfterDrifts == IF config.post_remediation_validation THEN "post_validate" ELSE "finish"

\* A phase loop that stops at the first node whose remediation failed.
ReturnStopsPhaseOnFailure(success, exit) ==
    /\ node_exit' = (CurNode :> exit) @@ node_exit
    /\ node_result' = (CurNode :> success) @@ node_result
    /\ canary_results' = IF pc = "canary"
                         THEN Append(canary_results, <<CurNode, success>>)
                         ELSE canary_results
    /\ remediation_results' = <<>>
    /\ drift_idx' = 1
    /\ IF widx < Len(work) /\ success
       THEN /\ widx' = widx + 1
            /\ node_pc' = FirstStep
            /\ UNCHANGED <<pc, visited>>
       ELSE /\ widx' = 0
            /\ node_pc' = "idle"
            /\ pc' = IF pc = "canary" THEN "gate" ELSE "report"
            /\ visited' = visited \cup {pc'}
    /\ UNCHANGED <<nodes_with_drifts, work, canary_success, report, result>>

\* remediate_node returns `success` by the return statement `exit`; the phase
\* loop (run_canary_remediation, run_full_remediation) takes the next node.
ReturnFromNode(success, exit) ==
    /\ node_exit' = (CurNode :> exit) @@ node_exit
    /\ node_result' = (CurNode :> success) @@ node_result
    /\ canary_results' = IF pc = "canary"
                         THEN Append(canary_results, <<CurNode, success>>)
                         ELSE canary_results
    /\ remediation_results' = <<>>
    /\ drift_idx' = 1
    /\ IF widx < Len(work)
       THEN /\ widx' = widx + 1
            /\ node_pc' = FirstStep
            /\ UNCHANGED <<pc, visited>>
       ELSE /\ widx' = 0
            /\ node_pc' = "idle"
            /\ pc' = IF pc = "canary" THEN "gate" ELSE "report"
            /\ visited' = visited \cup {pc'}
    /\ UNCHANGED <<nodes_with_drifts, work, canary_success, report, result>>

\* remediate_node stays in the node and moves to step `next`.
StayInNode(next) ==
    /\ node_pc' = next
    /\ UNCHANGED <<drift_idx, remediation_results, node_exit, node_result, runVars>>

\* The files of the machine below one of backup_paths.
BackedUpPaths == {p \in Paths : files[p] # "absent" /\ AncestorsOf(p) \cap backup_paths # {}}

Captured(ps) == {[path |-> p, content |-> files[p]] : p \in ps}

\* create_backup: the event it logs (backup_created, or backup_failed on an exception)
BackupEvent(outcome) ==
    IF outcome = "ok" THEN Event("backup_created", CurNode, "info")
    ELSE Event("backup_failed", CurNode, "error")

\* A remediate_node that goes on without a backup.
BackupNeverAborts(outcome) == FALSE

\* remediate_node: `if not backup_dir: ... return False` (create_backup returns
\* None when it caught an exception)
BackupAborts(outcome) == outcome # "ok"

\* create_backup followed by remediate_node's test of its result.  The backup
\* directory is made before the try block; outcome "error" = copytree or the
\* services.status write raised (what a failed backup holds is never read: the
\* node is left at once).
CreateBackup ==
    /\ node_pc = "backup"
    /\ \E outcome \in {"ok", "error"} :
         /\ backups' = (CurNode :>
                 IF outcome = "ok"
                 THEN Captured(BackedUpPaths)
                        \cup {[path |-> ServicesStatusFile, content |-> "running_units"]}
                 ELSE {}) @@ backups
         /\ IF BackupAborts(outcome)
            THEN /\ remediation_log' = remediation_log
                        \o <<BackupEvent(outcome),
                             Event("remediation_aborted", CurNode, "error")>>
                 /\ ReturnFromNode(FALSE, "backup_failed")
            ELSE /\ remediation_log' = Append(remediation_log, BackupEvent(outcome))
                 /\ StayInNode(AfterBackup)
    /\ UNCHANGED <<config, detection_report, files, services, packages, users,
                   results_files, commands, canary_nodes, remediated_nodes, failed_nodes,
                   selVars, detVars>>

\* validate_node: passed is the conjunction over required_services; the disk
\* and memory checks are recorded with passed = True
ValidationPassed == \A s \in required_services : services[s] = "active"

\* What `df -h /` and `free -m` can report.
ResourceStates == {"ok", "low"}

\* A validation whose disk and memory checks are gating.
validation_passed_gating_all(service_status, disk_info, memory_info) ==
    /\ \A s \in required_services : service_status[s] = "active"
    /\ disk_info = "ok"
    /\ memory_info = "ok"

\* validate_node: validation_results["passed"], set to False only by a required
\* service that is not active
validation_passed(service_status, disk_info, memory_info) ==
    \A s \in required_services : service_status[s] = "active"

\* A remediate_node that goes on whatever validate_node returned.
validation_always_ok(raised, passed) == TRUE

\* remediate_node: `if not validation or not validation['passed']` is the
\* failure; validate_node returns None (raised) when it caught an exception
validation_ok(raised, passed) == ~raised /\ passed

\* validate_node("pre_remediation") and remediate_node's test of it; raised =
\* validate_node caught an exception and returned None
PreValidate ==
    /\ node_pc = "pre_validate"
    /\ \E raised \in BOOLEAN, disk_info \in ResourceStates, memory_info \in ResourceStates :
         IF validation_ok(raised, validation_passed(services, disk_info, memory_info))
         THEN /\ remediation_log' = Append(remediation_log,
                        Event("validation_pre_remediation", CurNode, "info"))
              /\ StayInNode("drifts")
         ELSE /\ remediation_log' = remediation_log
                     \o <<IF raised THEN Event("validation_failed", CurNode, "error")
                          ELSE Event("validation_pre_remediation", CurNode, "info"),
                          Event("remediation_aborted", CurNode, "error")>>
              /\ ReturnFromNode(FALSE, "pre_validation_failed")
    /\ UNCHANGED <<config, detection_report, machineVars, commands, canary_nodes,
                   remediated_nodes, failed_nodes, selVars, detVars>>

\* ---------------------------------------------------------- drift handlers

\* remediate_node: the end of one iteration of `for drift in drifts`
NextDrift ==
    /\ IF drift_idx < Len(CurDrifts)
       THEN drift_idx' = drift_idx + 1 /\ node_pc' = node_pc
       ELSE drift_idx' = drift_idx /\ node_pc' = AfterDrifts
    /\ UNCHANGED <<node_exit, node_result, runVars>>

\* A drift loop that stops at the first handler that fails.
HandlerDoneStopsOnFailure(success) ==
    /\ remediation_results' =
          Append(remediation_results, [drift |-> CurDrift, success |-> success])
    /\ IF success THEN NextDrift
       ELSE /\ drift_idx' = drift_idx
            /\ node_pc' = AfterDrifts
            /\ UNCHANGED <<node_exit, node_result, runVars>>

\* remediate_node: remediation_results.append({"drift": drift, "success": success})
HandlerDone(success) ==
    /\ remediation_results' =
          Append(remediation_results, [drift |-> CurDrift, success |-> success])
    /\ NextDrift

AtDrift(types) == node_pc = "drifts" /\ CurDrift.type \in types

\* remediate_file_changes: is_managed
is_managed(file_path) == PrefixesOf(file_path) \cap managed_dirs # {}

\* os.path.exists(backup_file) for the node's backup of file_path
HasBackupFile(node, file_path) ==
    /\ node \in DOMAIN backups
    /\ \E b \in backups[node] : b.path = file_path

BackupContent(node, file_path) ==
    (CHOOSE b \in backups[node] : b.path = file_path).content

\* remediate_file_changes
RemediateFile ==
    /\ AtDrift({"file_change"})
    /\ LET file_path == CurDrift.target IN
       IF ~is_managed(file_path)
       THEN /\ remediation_log' = Append(remediation_log,
                      Event("skip_remediation", CurNode, "warning"))
            /\ UNCHANGED <<files, commands>>
            /\ HandlerDone(FALSE)
       ELSE IF HasBackupFile(CurNode, file_path)
       THEN \E ok \in BOOLEAN :
            /\ commands' = Append(commands, Command("cp", "restore", file_path, CurNode, ok))
            /\ files' = IF ok
                        THEN [files EXCEPT ![file_path] = BackupContent(CurNode, file_path)]
                        ELSE files
            /\ remediation_log' = Append(remediation_log,
                      IF ok THEN Event("file_restored", CurNode, "info")
                      ELSE Event("file_remediation_error", CurNode, "error"))
            /\ HandlerDone(ok)
       ELSE \E ok \in BOOLEAN :
            /\ commands' = Append(commands,
                      Command("ansible-playbook", "content", file_path, CurNode, ok))
            /\ files' = IF ok THEN [files EXCEPT ![file_path] = "desired"] ELSE files
            /\ remediation_log' = Append(remediation_log,
                      IF ok THEN Event("file_remediated", CurNode, "info")
                      ELSE Event("file_remediation_failed", CurNode, "error"))
            /\ HandlerDone(ok)
    /\ UNCHANGED <<config, detection_report, services, packages, users, backups,
                   results_files, canary_nodes, remediated_nodes, failed_nodes, selVars, detVars>>

\* A handler that takes a transition without error for a fix.
service_assumed_fixed(raised, new_status, desired_status) == raised = "none"

\* remediate_service_status: the value returned after the transition: False
\* from the except block when a command failed, else new_status == desired_status
service_fixed(raised, new_status, desired_status) ==
    raised = "none" /\ new_status = desired_status

\* remediate_service_status(node, service, "active"): raised = the command
\* (run with check=True) that failed, observed = the status the service has
\* after the settle delay
RemediateService ==
    /\ AtDrift({"service_status_change"})
    /\ LET service == CurDrift.target
           desired_status == "active" IN
       IF services[service] = desired_status
       THEN /\ remediation_log' = Append(remediation_log,
                      Event("service_already_ok", CurNode, "info"))
            /\ UNCHANGED <<services, commands>>
            /\ HandlerDone(TRUE)
       ELSE \E raised \in {"none", "start", "enable"}, observed \in {"active", "inactive"} :
            /\ raised = "start" => observed = services[service]
            /\ raised = "enable" => observed = desired_status
            /\ commands' = commands \o
                 (<<Command("systemctl", "start", service, CurNode, raised # "start")>>
                  \o IF raised = "start" THEN <<>>
                     ELSE <<Command("systemctl", "enable", service, CurNode,
                                    raised # "enable")>>)
            /\ services' = [services EXCEPT ![service] = observed]
            /\ remediation_log' = Append(remediation_log,
                      IF raised # "none"
                      THEN Event("service_remediation_error", CurNode, "error")
                      ELSE IF observed = desired_status
                      THEN Event("service_remediated", CurNode, "info")
                      ELSE Event("service_remediation_failed", CurNode, "error"))
            /\ HandlerDone(service_fixed(raised, observed, desired_status))
    /\ UNCHANGED <<config, detection_report, files, packages, users, backups,
                   results_files, canary_nodes, remediated_nodes, failed_nodes, selVars, detVars>>

\* The front-ends tried in another order.
package_managers_yum_first == <<"yum", "apt", "dnf">>

\* remediate_unauthorized_package: the front-ends in the order they are tried
package_managers == <<"apt", "yum", "dnf">>

\* remediate_unauthorized_package: first = the first front-end that returns 0
\* (0: none does); the later ones are not run
RemediatePackage ==
    /\ AtDrift({"package_added", "package_removed"})
    /\ LET package == CurDrift.target
           action == IF CurDrift.type = "package_added" THEN "remove" ELSE "install" IN
       \E first \in 0..Len(package_managers) :
         LET tried == IF first = 0 THEN Len(package_managers) ELSE first IN
         /\ commands' = commands \o
               [i \in 1..tried |->
                  Command(package_managers[i], action, package, CurNode, i = first)]
         /\ packages' = IF first = 0 THEN packages
                        ELSE IF action = "remove" THEN packages \ {package}
                        ELSE packages \cup {package}
         /\ remediation_log' = Append(remediation_log,
               IF first = 0
               THEN Event(IF action = "remove" THEN "package_removal_failed"
                          ELSE "package_install_failed", CurNode, "warning")
               ELSE Event(IF action = "remove" THEN "package_removed"
                          ELSE "package_installed", CurNode, "info"))
         /\ HandlerDone(first # 0)
    /\ UNCHANGED <<config, detection_report, files, services, users, backups,
                   results_files, canary_nodes, remediated_nodes, failed_nodes, selVars, detVars>>

\* A handler without the allow-list test.
PreservesNoUser(username) == FALSE

\* remediate_unauthorized_user: `if username in admin_users`
IsPreservedAdmin(username) == username \in preserve_admin_users

\* remediate_unauthorized_user: userdel / useradd run with check=True, ok = the
\* command returned 0 (useradd fails for an existing account)
RemediateUser ==
    /\ AtDrift({"user_added", "user_removed"})
    /\ LET username == CurDrift.target IN
       IF CurDrift.type = "user_added"
       THEN IF username \notin users
            THEN /\ remediation_log' = Append(remediation_log,
                           Event("user_not_found", CurNode, "info"))
                 /\ UNCHANGED <<users, commands>>
                 /\ HandlerDone(TRUE)
            ELSE IF IsPreservedAdmin(username)
            THEN /\ remediation_log' = Append(remediation_log,
                           Event("user_preserved", CurNode, "info"))
                 /\ UNCHANGED <<users, commands>>
                 /\ HandlerDone(TRUE)
            ELSE \E ok \in BOOLEAN :
                 /\ commands' = Append(commands,
                           Command("userdel", "remove", username, CurNode, ok))
                 /\ users' = IF ok THEN users \ {username} ELSE users
                 /\ remediation_log' = Append(remediation_log,
                           IF ok THEN Event("user_removed", CurNode, "info")
                           ELSE Event("user_remediation_error", CurNode, "error"))
                 /\ HandlerDone(ok)
       ELSE \E ok \in BOOLEAN :
            /\ ok => username \notin users
            /\ commands' = Append(commands,
                      Command("useradd", "add", username, CurNode, ok))
            /\ users' = IF ok THEN users \cup {username} ELSE users
            /\ remediation_log' = Append(remediation_log,
                      IF ok THEN Event("user_added", CurNode, "info")
                      ELSE Event("user_remediation_error", CurNode, "error"))
            /\ HandlerDone(ok)
    /\ UNCHANGED <<config, detection_report, files, services, packages, backups,
                   results_files, canary_nodes, remediated_nodes, failed_nodes, selVars, detVars>>

\* remediate_node: the else branch of the dispatch (log and `continue`)
UnknownDrift ==
    /\ node_pc = "drifts"
    /\ CurDrift.type \notin DriftTypes
    /\ remediation_log' = Append(remediation_log,
             Event("unknown_drift_type", CurNode, "warning"))
    /\ UNCHANGED remediation_results
    /\ NextDrift
    /\ UNCHANGED <<config, detection_report, machineVars, commands, canary_nodes,
                   remediated_nodes, failed_nodes, selVars, detVars>>

\* ------------------------------------------- post-validation and rollback

\* A remediate_node that never rolls back.
rollback_never(cfg) == FALSE

\* remediate_node: `if self.config['remediation']['rollback']['automatic_on_failure']`
rollback_configured(cfg) == cfg.automatic_on_failure

\* validate_node("post_remediation") and remediate_node's test of it; with
\* automatic_on_failure the rollback runs before `return False`
PostValidate ==
    /\ node_pc = "post_validate"
    /\ \E raised \in BOOLEAN, disk_info \in ResourceStates, memory_info \in ResourceStates :
         IF validation_ok(raised, validation_passed(services, disk_info, memory_info))
         THEN /\ remediation_log' = Append(remediation_log,
                        Event("validation_post_remediation", CurNode, "info"))
              /\ StayInNode("finish")
         ELSE /\ remediation_log' = remediation_log
                     \o <<IF raised THEN Event("validation_failed", CurNode, "error")
                          ELSE Event("validation_post_remediation", CurNode, "info"),
                          Event("remediation_failed_validation", CurNode, "error")>>
              /\ IF rollback_configured(config)
                 THEN StayInNode("rollback")
                 ELSE ReturnFromNode(FALSE, "post_validation_failed")
    /\ UNCHANGED <<config, detection_report, machineVars, commands, canary_nodes,
                   remediated_nodes, failed_nodes, selVars, detVars>>

\* The elements of a finite set, in some fixed order.
RECURSIVE SetToSeq(_)
SetToSeq(S) ==
    IF S = {} THEN <<>>
    ELSE LET x == CHOOSE y \in S : TRUE IN <<x>> \o SetToSeq(S \ {x})

\* A rollback that copies to the path relative to the working directory.
relative_path(b) == "relative_to_cwd"

\* rollback_node: system_path = '/' + os.path.relpath(backup_file, backup_dir)
system_path(b) == b.path

\* rollback_node: shutil.copy2(backup_file, system_path)
RestoreOf(b) == Command("copy2", "rollback", system_path(b), CurNode, TRUE)

\* The machine's files after the backup entries of `restored` were copied back
\* (copy2 keeps content and mode; the parent directory is created when missing).
RestoredFiles(fs, restored) ==
    [p \in Paths |->
        IF \E b \in restored : system_path(b) = p
        THEN (CHOOSE b \in restored : system_path(b) = p).content
        ELSE fs[p]]

\* rollback_node: os.walk(backup_dir) is top-down, so services.status (in the
\* top directory) comes before the files of the copied trees
WalkOrder(backup) ==
    SetToSeq({b \in backup : b.path = ServicesStatusFile})
      \o SetToSeq({b \in backup : b.path # ServicesStatusFile})

\* A restore that moves the files out of the backup directory.
moved_out_of_backup(backup, restored) == backup \ restored

\* rollback_node: shutil.copy2 reads the backup file and leaves it in place
left_in_backup(backup, restored) == backup

\* rollback_node, then remediate_node's `return False`.  The walk copies the
\* backup's files back one by one and stops at the first exception (the only
\* try block is around the whole walk); copied = the number of entries copied
\* before it (all of them: no exception).
RollbackNode ==
    /\ node_pc = "rollback"
    /\ IF CurNode \notin DOMAIN backups
       THEN /\ remediation_log' = Append(remediation_log,
                      Event("rollback_failed", CurNode, "error"))
            /\ UNCHANGED <<files, commands, backups>>
       ELSE \E copied \in 0..Cardinality(backups[CurNode]) :
            LET walk == WalkOrder(backups[CurNode])
                restored == {walk[i] : i \in 1..copied} IN
            /\ files' = RestoredFiles(files, restored)
            /\ backups' = [backups EXCEPT
                              ![CurNode] = left_in_backup(backups[CurNode], restored)]
            /\ commands' = commands \o [i \in 1..copied |-> RestoreOf(walk[i])]
            /\ remediation_log' = Append(remediation_log,
                      IF restored = backups[CurNode]
                      THEN Event("rollback_complete", CurNode, "info")
                      ELSE Event("rollback_error", CurNode, "error"))
    /\ ReturnFromNode(FALSE, "post_validation_failed")
    /\ UNCHANGED <<config, detection_report, services, packages, users,
                   results_files, canary_nodes, remediated_nodes, failed_nodes, selVars, detVars>>

\* remediate_node: success_count
SuccessCount(results) == Cardinality({i \in 1..Len(results) : results[i].success})

\* remediate_node: the value returned after the results are saved
NodeSucceeded(results) ==
    IF SuccessCount(results) = Len(results) THEN TRUE ELSE SuccessCount(results) > 0

\* remediate_node after the validations: save the results, log, append the node
\* to remediated_nodes (on both branches) and return
FinishNode ==
    /\ node_pc = "finish"
    /\ results_files' = (CurNode :> remediation_results) @@ results_files
    /\ LET complete == SuccessCount(remediation_results) = Len(remediation_results) IN
       /\ remediation_log' = Append(remediation_log,
               IF complete THEN Event("remediation_complete", CurNode, "info")
               ELSE Event("remediation_partial", CurNode, "warning"))
       /\ remediated_nodes' = Append(remediated_nodes, CurNode)
       /\ ReturnFromNode(NodeSucceeded(remediation_results),
                         IF complete THEN "complete" ELSE "partial")
    /\ UNCHANGED <<config, detection_report, files, services, packages, users, backups,
                   commands, canary_nodes, failed_nodes, selVars, detVars>>

\* -------------------------------------------------------------------- run

\* A run() that takes an empty report for a failure.
early_return_empty_fails(enabled, loaded, detections) ==
    IF ~enabled \/ ~loaded \/ detections = <<>> THEN <<FALSE>> ELSE <<>>

\* A run() without the test of remediation.enabled.
early_return_ignores_enabled(enabled, loaded, detections) ==
    IF ~loaded THEN <<FALSE>>
    ELSE IF detections = <<>> THEN <<TRUE>>
    ELSE <<>>

\* run(): the value of its early return statements (<<>>: it goes on to the
\* canary phase).  False when remediation is disabled or no report was loaded,
\* True when the grouping is empty, i.e. the report has no detection.
early_return(enabled, loaded, detections) ==
    IF ~enabled \/ ~loaded THEN <<FALSE>>
    ELSE IF detections = <<>> THEN <<TRUE>>
    ELSE <<>>

\* run(): the checks and the grouping that precede the canary phase
Run ==
    /\ pc = "start"
    /\ LET early == early_return(config.enabled, detection_report.loaded,
                                 detection_report.detections) IN
       /\ result' = early
       /\ pc' = IF early # <<>> THEN "done" ELSE "canary_select"
       /\ nodes_with_drifts' =
             IF early = <<>> \/ early = <<TRUE>>
             THEN GroupByNode(detection_report.detections)
             ELSE nodes_with_drifts
    /\ visited' = visited \cup {pc'}
    /\ UNCHANGED <<config, detection_report, machineVars, engineVars, work, widx,
                   canary_results, canary_success, report, nodeVars, selVars, detVars>>

\* A phase that hands out its second node while the first has not run.
StartPhaseAtSecondNode(nodes, phase) ==
    /\ work' = nodes
    /\ widx' = Min(2, Len(nodes))
    /\ node_pc' = FirstStep
    /\ drift_idx' = 1
    /\ remediation_results' = <<>>
    /\ pc' = phase
    /\ visited' = visited \cup {phase}

\* The first node of a phase enters remediate_node.
StartPhase(nodes, phase) ==
    /\ work' = nodes
    /\ widx' = 1
    /\ node_pc' = FirstStep
    /\ drift_idx' = 1
    /\ remediation_results' = <<>>
    /\ pc' = phase
    /\ visited' = visited \cup {phase}

\* run_canary_remediation up to its loop: select the canary nodes.  Every
\* grouped node has at least one detection, so the loop skips none.
RunCanaryRemediation ==
    /\ pc = "canary_select"
    /\ canary_nodes' = select_canary_nodes(Keys(nodes_with_drifts),
                          config.canary_enabled, config.percentage)
    /\ StartPhase(canary_nodes', "canary")
    /\ UNCHANGED <<config, detection_report, machineVars, remediation_log, commands,
                   remediated_nodes, failed_nodes, nodes_with_drifts, canary_results,
                   canary_success, report, result, node_exit, node_result, selVars, detVars>>

\* A gate that needs the rate to exceed the threshold.
rate_above_threshold(successful, total, threshold) ==
    IF total > 0 THEN successful * 100 > threshold * total ELSE 0 > threshold

\* run_canary_remediation: success_rate >= success_threshold, where success_rate
\* is successful / total * 100 (0 when total is 0).  For the totals of this model
\* and whole-number thresholds the floating-point rate compares with the
\* threshold as the exact quotient does.
rate_meets_threshold(successful, total, threshold) ==
    IF total > 0 THEN successful * 100 >= threshold * total ELSE 0 >= threshold

\* run_canary_remediation: successful_canaries
SuccessfulCanaries(results) == Cardinality({i \in 1..Len(results) : results[i][2]})

\* A run() that goes on to the full phase whatever the canary phase returned.
proceeds_always(canary_ok) == TRUE

\* run(): `if not canary_success: ... return False` stops the run
proceeds_after_canary(canary_ok) == canary_ok

\* A run() that goes to the full phase without waiting.
never_waits(wait_time, canaries) == FALSE

\* run(): `if wait_time > 0 and self.canary_nodes`
waits_before_full(wait_time, canaries) == wait_time > 0 /\ canaries # <<>>

\* run_canary_remediation after its loop (the gate), and run()'s test of it
CanaryGate ==
    /\ pc = "gate"
    /\ LET passed == rate_meets_threshold(SuccessfulCanaries(canary_results),
                         Len(canary_results), config.success_threshold) IN
       /\ canary_success' = <<passed>>
       /\ remediation_log' = Append(remediation_log,
               IF passed THEN Event("canary_success", "all", "info")
               ELSE Event("canary_failed", "all", "error"))
       /\ pc' = IF ~proceeds_after_canary(passed) THEN "report"
                ELSE IF waits_before_full(config.wait_time_minutes, canary_nodes) THEN "wait"
                ELSE "full_select"
    /\ visited' = visited \cup {pc'}
    /\ UNCHANGED <<config, detection_report, machineVars, commands, canary_nodes,
                   remediated_nodes, failed_nodes, nodes_with_drifts, work, widx,
                   canary_results, report, result, nodeVars, selVars, detVars>>

\* run(): time.sleep(wait_time * 60)
Wait ==
    /\ pc = "wait"
    /\ pc' = "full_select"
    /\ visited' = visited \cup {pc'}
    /\ UNCHANGED <<config, detection_report, machineVars, engineVars, nodes_with_drifts,
                   work, widx, canary_results, canary_success, report, result, nodeVars,
                   selVars, detVars>>

\* A full phase that does not leave out the canary nodes.
EveryGroupedNode(g, canaries) == Keys(g)

\* A full phase that takes the canary nodes whose remediation failed again.
RemainingAndFailedNodes(g, canaries) ==
    LET Retry(e) ==
          \/ e.node \notin SeqToSet(canaries)
          \/ e.node \in DOMAIN node_result /\ ~node_result[e.node]
    IN Keys(SelectSeq(g, Retry))

\* run_full_remediation: remaining_nodes
RemainingNodes(g, canaries) ==
    LET NotCanary(e) == e.node \notin SeqToSet(canaries) IN Keys(SelectSeq(g, NotCanary))

\* run_full_remediation up to its loop
RunFullRemediation ==
    /\ pc = "full_select"
    /\ LET remaining == RemainingNodes(nodes_with_drifts, canary_nodes) IN
       IF remaining = <<>>
       THEN /\ pc' = "report"
            /\ visited' = visited \cup {"full_select", "report"}
            /\ UNCHANGED <<work, widx, node_pc, drift_idx, remediation_results>>
       ELSE StartPhase(remaining, "full")
    /\ UNCHANGED <<config, detection_report, machineVars, engineVars, nodes_with_drifts,
                   canary_results, canary_success, report, result, node_exit, node_result,
                   selVars, detVars>>

\* generate_remediation_report: events_by_type
EventsByType(log) ==
    [t \in {log[i].type : i \in 1..Len(log)} |->
        Cardinality({i \in 1..Len(log) : log[i].type = t})]

\* generate_remediation_report: recommendations
Recommendations(failed, by_type) ==
    (IF failed # <<>> THEN {"manual_intervention"} ELSE {})
      \cup (IF "remediation_failed_validation" \in DOMAIN by_type
            THEN {"review_validation_thresholds"} ELSE {})

\* generate_remediation_report followed by run()'s return: False after a failed
\* canary phase, len(self.failed_nodes) == 0 otherwise
GenerateReport ==
    /\ pc = "report"
    /\ report' = [generated |-> TRUE,
                  total_nodes_remediated |-> Len(remediated_nodes),
                  total_nodes_failed |-> Len(failed_nodes),
                  canary_nodes |-> canary_nodes,
                  remediated_nodes |-> remediated_nodes,
                  failed_nodes |-> failed_nodes,
                  events_by_type |-> EventsByType(remediation_log),
                  recommendations |->
                      Recommendations(failed_nodes, EventsByType(remediation_log))]
    /\ result' = IF canary_success = <<FALSE>> THEN <<FALSE>>
                 ELSE <<Len(failed_nodes) = 0>>
    /\ pc' = "done"
    /\ visited' = visited \cup {pc'}
    /\ UNCHANGED <<config, detection_report, machineVars, engineVars, nodes_with_drifts,
                   work, widx, canary_results, canary_success, nodeVars, selVars, detVars>>

Next ==
    \/ Run
    \/ RunCanaryRemediation
    \/ CreateBackup
    \/ PreValidate
    \/ RemediateFile
    \/ RemediateService
    \/ RemediatePackage
    \/ RemediateUser
    \/ UnknownDrift
    \/ PostValidate
    \/ RollbackNode
    \/ FinishNode
    \/ CanaryGate
    \/ Wait
    \/ RunFullRemediation
    \/ GenerateReport

Spec == Init /\ [][Next]_vars

\* The engine is one sequential process: run() and everything it calls are
\* plain loops over finite lists and blocking calls that return, so the step
\* that is enabled is eventually taken.
SpecLive == Init /\ [][Next]_vars /\ WF_vars(Next)

\* ------------------------------------------- select_canary_nodes on its own

\* The node lists handed to select_canary_nodes: the keys of a grouping, which
\* are distinct.
NodeLists == {SubSeq(NodeNames, 1, n) : n \in 0..MaxSelectNodes}

InitSelect ==
    /\ InitWith(ReferenceRollout @@ ReferenceNodeOptions, FALSE, <<>>)
    /\ sel_in \in [all_nodes : NodeLists, enabled : BOOLEAN, percentage : 1..100]
    /\ sel_out = [done |-> FALSE, nodes |-> <<>>]

\* One call of select_canary_nodes(all_nodes) under the drawn configuration.
ApplySelect ==
    /\ ~sel_out.done
    /\ sel_out' = [done |-> TRUE,
                   nodes |-> select_canary_nodes(sel_in.all_nodes, sel_in.enabled,
                                                 sel_in.percentage)]
    /\ UNCHANGED <<config, detection_report, machineVars, engineVars, runVars, nodeVars,
                   sel_in, detVars>>

NextSelect == ApplySelect

SpecSelect == InitSelect /\ [][NextSelect]_vars

\* ------------------------------------------------ the grouping of run()

\* Detections with and without a node field.
GroupDetections ==
    LET named == [type : {"file_change"}, node : {"n1", "n2"}, target : {ManagedFile}]
                   \cup [type : {"service_status_change"}, node : {"n1", "n2"},
                         target : {"nginx"}]
        unnamed == [type : {"file_change"}, target : {ManagedFile}]
                     \cup [type : {"service_status_change"}, target : {"nginx"}]
    IN named \cup unnamed

RECURSIVE GroupReportsOfLen(_)
GroupReportsOfLen(len) ==
    IF len = 0 THEN {<<>>}
    ELSE {Append(r, d) : r \in GroupReportsOfLen(len - 1), d \in GroupDetections}

GroupReports == UNION {GroupReportsOfLen(len) : len \in 0..MaxGroupDetections}

InitGroup ==
    /\ \E r \in GroupReports : InitWith(ReferenceRollout @@ ReferenceNodeOptions, TRUE, r)
    /\ sel_in = NoSelection
    /\ sel_out = [done |-> FALSE, nodes |-> <<>>]

NextGroup == Run

SpecGroup == InitGroup /\ [][NextGroup]_vars

\* ------------------------------- create_backup and rollback_node round trip

\* What a file can hold when the backup is taken.  A value stands for the
\* file's bytes together with its mode: copytree (copy2) and copy2 carry both.
FileStates == {"desired", "drifted", "absent"}

\* remediate_node entered for the first canary node of a one-detection report,
\* backup_before_remediation on, over a machine whose files hold anything.
InitRestore ==
    /\ \E cfg \in {c \in Configs : c.enabled /\ c.backup_before_remediation},
          r \in ReportsOfLen(1), m \in FileStates, u \in FileStates :
         /\ config = cfg
         /\ detection_report = [loaded |-> TRUE, detections |-> r]
         /\ files = (ManagedFile :> m) @@ (UnmanagedFile :> u)
                       @@ (SiblingFile :> "desired") @@ (ServicesStatusFile :> "absent")
         /\ services = MachineOf(r).services
         /\ packages = MachineOf(r).packages
         /\ users = MachineOf(r).users
         /\ nodes_with_drifts = GroupByNode(r)
         /\ canary_nodes = select_canary_nodes(Keys(GroupByNode(r)),
                              cfg.canary_enabled, cfg.percentage)
         /\ work = canary_nodes
    /\ widx = 1
    /\ node_pc = "backup"
    /\ drift_idx = 1
    /\ pc = "canary"
    /\ visited = {"start", "canary_select", "canary"}
    /\ backups = <<>>
    /\ results_files = <<>>
    /\ remediation_log = <<>>
    /\ commands = <<>>
    /\ remediated_nodes = <<>>
    /\ failed_nodes = <<>>
    /\ remediation_results = <<>>
    /\ canary_results = <<>>
    /\ canary_success = <<>>
    /\ node_exit = <<>>
    /\ node_result = <<>>
    /\ report = NoReport
    /\ result = <<>>
    /\ sel_in = NoSelection
    /\ sel_out = [done |-> FALSE, nodes |-> <<>>]
    /\ last_state = NoState
    /\ detector = NoDetector

\* A file the node's backup captured is modified (rewritten or deleted) after
\* the backup, and remediate_node then reaches its call of rollback_node.
EditCapturedFile ==
    /\ node_pc \in {"pre_validate", "drifts"}
    /\ CurNode \in DOMAIN backups
    /\ \E b \in backups[CurNode], c \in {"edited", "absent"} :
         /\ b.path # ServicesStatusFile
         /\ files' = [files EXCEPT ![b.path] = c]
    /\ node_pc' = "rollback"
    /\ UNCHANGED <<config, detection_report, services, packages, users, backups,
                   results_files, engineVars, runVars, drift_idx, remediation_results,
                   node_exit, node_result, selVars, detVars>>

NextRestore ==
    \/ CreateBackup
    \/ EditCapturedFile
    \/ RollbackNode

SpecRestore == InitRestore /\ [][NextRestore]_vars

\* ------------------------------------------------------- the drift detector
\* detection-system/scripts/drift_detector.py.  One DriftDetector is built per
\* process: __init__ loads database/last_state.json, run_detection compares the
\* machine with it, saves the new state and writes the report the engine loads.

\* detection.monitored_paths and monitored_patterns: the files rglob yields
MonitoredFiles == {ManagedFile}

\* detection.monitored_services
MonitoredServices == {"nginx"}

\* What `dpkg -l` / `rpm -qa` and `getent passwd` can list.
PackageUniverse == {"curl", "nmap"}

UserUniverse == {"deploy", "mallory"}

\* calculate_checksum: the sha256 digest of the file's bytes
calculate_checksum(content) == <<"sha256", content>>

\* dict.get(key, default)
Get(d, key, default) == IF key \in DOMAIN d THEN d[key] ELSE default

\* check_file_changes: the files it gets a checksum for (regular files whose
\* checksum could be computed)
Processed(readable) == {f \in readable : files[f] # "absent"}

\* check_file_changes: `if previous_checksum and previous_checksum != checksum`
FileChanges(previous_state, readable) ==
    {f \in Processed(readable) :
        LET previous_checksum == Get(Get(previous_state, "files", NoState), f, None) IN
        previous_checksum # None /\ previous_checksum # calculate_checksum(files[f])}

\* check_service_status: `if previous_status and previous_status != current_status`
ServiceChanges(previous_state, queried) ==
    {sv \in queried :
        LET previous_status == Get(Get(previous_state, "services", NoState), sv, None) IN
        previous_status # None /\ previous_status # services[sv]}

\* check_package_changes: previous_packages
PreviousPackages(previous_state) == Get(previous_state, "packages", {})

\* check_user_accounts: previous_users
PreviousUsers(previous_state) == Get(previous_state, "users", {})

DetectionsOf(type, targets) == SetToSeq({[type |-> type, target |-> t] : t \in targets})

\* run_detection: self.detections after the four checks.  listed_p / listed_u:
\* the package and the account listing were obtained (False: the check returned
\* early or its except block caught an exception).
Detected(previous_state, readable, queried, listed_p, listed_u) ==
    DetectionsOf("file_change", FileChanges(previous_state, readable))
      \o DetectionsOf("service_status_change", ServiceChanges(previous_state, queried))
      \o (IF listed_p
          THEN DetectionsOf("package_added", packages \ PreviousPackages(previous_state))
                 \o DetectionsOf("package_removed",
                                 PreviousPackages(previous_state) \ packages)
          ELSE <<>>)
      \o (IF listed_u
          THEN DetectionsOf("user_added", users \ PreviousUsers(previous_state))
                 \o DetectionsOf("user_removed", PreviousUsers(previous_state) \ users)
          ELSE <<>>)

\* run_detection: the keys the checks set in self.report_data.  A check sets
\* its key only when it got that far.
StateKeys(readable, queried, listed_p, listed_u) ==
    (IF Processed(readable) # {} THEN {"files"} ELSE {})
      \cup (IF queried # {} THEN {"services"} ELSE {})
      \cup (IF listed_p THEN {"packages"} ELSE {})
      \cup (IF listed_u THEN {"users"} ELSE {})

\* save_current_state: the part of self.report_data the next run reads
CurrentState(readable, queried, listed_p, listed_u) ==
    [key \in StateKeys(readable, queried, listed_p, listed_u) |->
        CASE key = "files" -> [f \in Processed(readable) |-> calculate_checksum(files[f])]
          [] key = "services" -> [sv \in queried |-> services[sv]]
          [] key = "packages" -> packages
          [] OTHER -> users]

\* The state of the machine the detector looks at.
Observable ==
    [key \in {"files", "services", "packages", "users"} |->
        CASE key = "files" -> [f \in MonitoredFiles |-> files[f]]
          [] key = "services" -> [sv \in MonitoredServices |-> services[sv]]
          [] key = "packages" -> packages
          [] OTHER -> users]

engineIdleVars == <<config, backups, results_files, engineVars, runVars, nodeVars, selVars>>

\* The machine holds anything; no detector has run and no state is saved.
InitDetect ==
    /\ \E m \in FileStates, sv \in {"active", "inactive"},
          ps \in SUBSET PackageUniverse, us \in SUBSET UserUniverse :
           /\ config = ReferenceRollout @@ ReferenceNodeOptions
           /\ detection_report = [loaded |-> FALSE, detections |-> <<>>]
           /\ files = [MachineOf(<<>>).files EXCEPT ![ManagedFile] = m]
           /\ services = [s \in required_services |-> sv]
           /\ packages = ps
           /\ users = us
           /\ backups = <<>>
           /\ results_files = <<>>
           /\ remediation_log = <<>>
           /\ commands = <<>>
           /\ canary_nodes = <<>>
           /\ remediated_nodes = <<>>
           /\ failed_nodes = <<>>
           /\ nodes_with_drifts = <<>>
           /\ pc = "start"
           /\ visited = {"start"}
           /\ work = <<>>
           /\ widx = 0
           /\ node_pc = "idle"
           /\ drift_idx = 0
           /\ remediation_results = <<>>
           /\ canary_results = <<>>
           /\ canary_success = <<>>
           /\ node_exit = <<>>
           /\ node_result = <<>>
           /\ report = NoReport
           /\ result = <<>>
           /\ last_state = NoState
           /\ detector = NoDetector
    /\ sel_in = NoSelection
    /\ sel_out = [done |-> FALSE, nodes |-> <<>>]

\* One run of the detector (main): __init__ with load_previous_state, then
\* run_detection: the four checks, save_current_state and generate_report.
\* loaded: the state file was read (False: json.load raised and {} is used);
\* readable: the files whose checksum could be computed; queried: the services
\* whose status query did not raise; saved_ok: the state file was written.
RunDetection ==
    /\ detector.runs < MaxDetectionRuns
    /\ \E loaded \in BOOLEAN, readable \in SUBSET MonitoredFiles,
          queried \in SUBSET MonitoredServices, listed_p \in BOOLEAN,
          listed_u \in BOOLEAN, saved_ok \in BOOLEAN :
         LET previous_state == IF loaded THEN last_state ELSE NoState IN
         /\ detection_report' =
               [loaded |-> TRUE,
                detections |-> Detected(previous_state, readable, queried,
                                        listed_p, listed_u)]
         /\ last_state' = IF saved_ok
                          THEN CurrentState(readable, queried, listed_p, listed_u)
                          ELSE last_state
         /\ detector' = [runs |-> detector.runs + 1,
                         drifts |-> detector.drifts,
                         previous_state |-> previous_state,
                         saved |-> saved_ok,
                         observed |-> Observable]
    /\ UNCHANGED <<files, services, packages, users, engineIdleVars>>

\* Somebody changes the machine between two runs of the detector: a monitored
\* file is rewritten, created or deleted, a service stops or starts, a package or an account is
\* added or removed.
Drift ==
    /\ detector.runs >= 1
    /\ detector.drifts < MaxDrifts
    /\ \/ /\ \E f \in MonitoredFiles, c \in FileStates :
               files[f] # c /\ files' = [files EXCEPT ![f] = c]
          /\ UNCHANGED <<services, packages, users>>
       \/ /\ \E sv \in MonitoredServices :
               services' = [services EXCEPT
                              ![sv] = IF services[sv] = "active" THEN "inactive"
                                      ELSE "active"]
          /\ UNCHANGED <<files, packages, users>>
       \/ /\ \E p \in PackageUniverse :
               packages' = IF p \in packages THEN packages \ {p} ELSE packages \cup {p}
          /\ UNCHANGED <<files, services, users>>
       \/ /\ \E u \in UserUniverse :
               users' = IF u \in users THEN users \ {u} ELSE users \cup {u}
          /\ UNCHANGED <<files, services, packages>>
    /\ detector' = [detector EXCEPT !.drifts = @ + 1]
    /\ UNCHANGED <<detection_report, last_state, engineIdleVars>>

NextDetect ==
    \/ RunDetection
    \/ Drift

SpecDetect == InitDetect /\ [][NextDetect]_vars

\* ================================================================== claims

\* The terminal state of a node whose remediate_node has returned.
EndsFailed(n) ==
    /\ n \in DOMAIN node_exit
    /\ \/ node_exit[n] \in {"backup_failed", "pre_validation_failed"}
       \/ node_exit[n] = "post_validation_failed" /\ ~config.automatic_on_failure

GateAborted == canary_success = <<FALSE>>

CanarySet == SeqToSet(canary_nodes)

GroupedNodes == SeqToSet(Keys(nodes_with_drifts))

\* Canary nodes attempted so far, and those whose remediate_node returned True.
CanariesAttempted == CanarySet \cap DOMAIN node_result

CanariesSucceeded == {n \in CanariesAttempted : node_result[n]}

TouchedNodes ==
    ({remediation_log[i].node : i \in 1..Len(remediation_log)} \ {"all"})
      \cup {commands[i].node : i \in 1..Len(commands)}
      \cup DOMAIN backups \cup DOMAIN results_files \cup DOMAIN node_result

\* C2: once the canary gate has aborted, no non-canary node is backed up,
\* validated, remediated or rolled back, and run() returns failure.
C2_AbortIsTerminal ==
    GateAborted =>
        /\ TouchedNodes \subseteq CanarySet
        /\ "full_select" \notin visited
        /\ pc \in {"report", "done"}
        /\ pc = "done" => result = <<FALSE>>

\* C2 witness: a finished run aborted at the gate with a remainder node left.
C2_Witness ==
    /\ GateAborted
    /\ pc = "done"
    /\ GroupedNodes \ CanarySet # {}

\* C3: run() returns failure whenever a node ended Failed or the gate aborted.
C3_FailedNodeMeansFailure ==
    pc = "done" =>
        (((\E n \in GroupedNodes : EndsFailed(n)) \/ GateAborted) => result = <<FALSE>>)

\* C4: in safe mode no handler issues a state-changing command and every handler
\* reports success.
C4_SafeModeChangesNothing ==
    config.safe_mode =>
        /\ commands = <<>>
        /\ \A i \in 1..Len(remediation_results) : remediation_results[i].success

\* Every handler result recorded: those of the node in progress and the saved ones.
AllResults ==
    SeqToSet(remediation_results)
      \cup UNION {SeqToSet(results_files[n]) : n \in DOMAIN results_files}

\* C5: a user_added remediation never issues the deletion of a user of
\* preserve_admin_users, leaves that account in place and reports success.
C5_AdminNeverDeleted ==
    /\ \A i \in 1..Len(commands) :
          commands[i].tool = "userdel" => commands[i].target \notin preserve_admin_users
    /\ (MachineOf(detection_report.detections).users \cap preserve_admin_users) \subseteq users
    /\ \A r \in AllResults :
          (r.drift.type = "user_added" /\ r.drift.target \in preserve_admin_users)
             => r.success

\* C5 witness: the handler has run on an allow-listed user that exists.
C5_Witness ==
    /\ \E r \in AllResults :
          r.drift.type = "user_added" /\ r.drift.target \in preserve_admin_users
    /\ \E i \in 1..Len(remediation_log) : remediation_log[i].type = "user_preserved"
    /\ preserve_admin_users \cap users # {}

\* C6: with backup_before_remediation, right after the file_change handler
\* reports success for a managed file that had drifted, the file has its desired
\* content.
C6_RestoredFileIsDesired ==
    (/\ config.backup_before_remediation
     /\ remediation_results # <<>>
     /\ remediation_results[Len(remediation_results)].drift.type = "file_change"
     /\ remediation_results[Len(remediation_results)].success
     /\ node_pc \in {"drifts", "post_validate", "finish"})
    => files[remediation_results[Len(remediation_results)].drift.target] = "desired"

\* The events the drift handlers and validate_node log.
HandlerEventTypes ==
    {"skip_remediation", "file_restored", "file_remediated", "file_remediation_failed",
     "file_remediation_error", "service_already_ok", "service_remediated",
     "service_remediation_failed", "service_remediation_error", "package_removed",
     "package_removal_failed", "package_installed", "package_install_failed",
     "user_not_found", "user_preserved", "user_removed", "user_added",
     "user_remediation_error", "unknown_drift_type"}

ValidationEventTypes ==
    {"validation_pre_remediation", "validation_post_remediation", "validation_failed"}

BackupCreatedBefore(i) ==
    \E j \in 1..(i - 1) :
        /\ remediation_log[j].type = "backup_created"
        /\ remediation_log[j].node = remediation_log[i].node

\* C7: with backup_before_remediation, no handler runs on a node before its
\* backup was created, and a node whose backup failed ends Failed with no
\* handler and no validation run on it.
C7_BackupBeforeHandlers ==
    config.backup_before_remediation =>
        /\ \A i \in 1..Len(remediation_log) :
              remediation_log[i].type \in HandlerEventTypes => BackupCreatedBefore(i)
        /\ \A i \in 1..Len(commands) :
              \E j \in 1..Len(remediation_log) :
                  /\ remediation_log[j].type = "backup_created"
                  /\ remediation_log[j].node = commands[i].node
        /\ \A n \in DOMAIN node_exit :
              node_exit[n] = "backup_failed" =>
                  /\ ~node_result[n]
                  /\ \A i \in 1..Len(remediation_log) :
                        remediation_log[i].node = n =>
                            remediation_log[i].type
                               \notin HandlerEventTypes \cup ValidationEventTypes
                  /\ \A i \in 1..Len(commands) : commands[i].node # n

\* C7 witness: one node had handlers issue commands after its backup, another
\* node's backup failed.
C7_Witness ==
    /\ config.backup_before_remediation
    /\ commands # <<>>
    /\ \E n \in DOMAIN node_exit : node_exit[n] = "backup_failed"

\* C8: the report lists and counts every node that ended Failed and recommends
\* manual intervention when there is one.
C8_FailedNodesReported ==
    report.generated =>
        LET failed == {n \in GroupedNodes : EndsFailed(n)} IN
        /\ failed \subseteq SeqToSet(report.failed_nodes)
        /\ report.total_nodes_failed = Cardinality(failed)
        /\ failed # {} => "manual_intervention" \in report.recommendations

\* C9: a node that passed (or skipped) post-validation ends Completed when all
\* its handlers succeeded and PartiallyCompleted when some but not all did, and
\* a node is in remediated_nodes exactly if remediate_node returned success.
C9_RemediatedIffSucceeded ==
    \A n \in DOMAIN node_result :
        /\ n \in SeqToSet(remediated_nodes) <=> node_result[n]
        /\ node_exit[n] = "complete" =>
              \A i \in 1..Len(results_files[n]) : results_files[n][i].success
        /\ node_exit[n] = "partial" =>
              /\ \E i \in 1..Len(results_files[n]) : results_files[n][i].success
              /\ \E i \in 1..Len(results_files[n]) : ~results_files[n][i].success

\* The call of select_canary_nodes is over, canaries enabled, at least one node.
SelectedWithCanary == sel_out.done /\ sel_in.enabled /\ Len(sel_in.all_nodes) >= 1

IsPrefixOfInput(nodes) ==
    /\ Len(nodes) <= Len(sel_in.all_nodes)
    /\ nodes = SubSeq(sel_in.all_nodes, 1, Len(nodes))

NoDuplicates(s) == \A i, j \in 1..Len(s) : s[i] = s[j] => i = j

\* C11: every node with a detection is in exactly one of the canary set and the
\* remainder set: the canary nodes are distinct grouped nodes, the list the full
\* phase iterates over is disjoint from them and holds every other grouped
\* node once, and when the full phase is over every grouped node was processed.
C11_CanaryAndRemainderPartition ==
    /\ NoDuplicates(canary_nodes)
    /\ CanarySet \subseteq GroupedNodes
    /\ pc = "full" =>
          /\ NoDuplicates(work)
          /\ SeqToSet(work) \cap CanarySet = {}
          /\ SeqToSet(work) \cup CanarySet = GroupedNodes
    /\ ("full_select" \in visited /\ pc \in {"report", "done"}) =>
          DOMAIN node_result = GroupedNodes

\* C11 witness: the full phase at work on a remainder, after a canary phase.
C11_Witness ==
    /\ pc = "full"
    /\ CanarySet # {}
    /\ SeqToSet(work) # {}
    /\ DOMAIN node_result = CanarySet

\* C12: for a report whose detections list is empty, run() remediates no node,
\* leaves remediated_nodes and failed_nodes empty and returns success.
C12_EmptyReportSucceeds ==
    (config.enabled /\ detection_report.loaded /\ detection_report.detections = <<>>
       /\ pc # "start") =>
        /\ pc = "done"
        /\ result = <<TRUE>>
        /\ remediated_nodes = <<>>
        /\ failed_nodes = <<>>
        /\ TouchedNodes = {}

\* C12 witness: a finished run over a loaded report without detections.
C12_Witness ==
    /\ config.enabled
    /\ detection_report.loaded
    /\ detection_report.detections = <<>>
    /\ pc = "done"
    /\ result = <<TRUE>>

\* C13: without a loaded report, or with remediation disabled, run() returns
\* failure and no backup, validation, handler or rollback touches any node.
C13_NoReportOrDisabledFailsFast ==
    (~detection_report.loaded \/ ~config.enabled) =>
        /\ pc \in {"start", "done"}
        /\ pc = "done" => result = <<FALSE>>
        /\ TouchedNodes = {}
        /\ remediation_log = <<>>
        /\ commands = <<>>

\* C13 witness: a finished run with remediation disabled over a report that
\* has detections.
C13_Witness ==
    /\ ~config.enabled
    /\ detection_report.loaded
    /\ detection_report.detections # <<>>
    /\ pc = "done"

\* The run ended on a run-scoped failure.
RunScopedFailure ==
    \/ ~detection_report.loaded
    \/ ~config.enabled
    \/ GateAborted

\* C14: a run that ends on a run-scoped failure (no report, remediation
\* disabled, canary gate failure) has produced a remediation report.
C14_RunScopedFailureStillReports ==
    (pc = "done" /\ RunScopedFailure) =>
        /\ "full_select" \notin visited
        /\ report.generated

\* The machine is already in the state the handler of drift d is to establish.
InDesiredState(d) ==
    CASE d.type = "file_change" -> files[d.target] = "desired"
      [] d.type = "service_status_change" -> services[d.target] = "active"
      [] d.type = "package_added" -> d.target \notin packages
      [] d.type = "package_removed" -> d.target \in packages
      [] d.type = "user_added" -> d.target \notin users
      [] d.type = "user_removed" -> d.target \in users
      [] OTHER -> FALSE

\* A handler is about to run on a drift whose desired state already holds.
HandlerOnDesiredState ==
    /\ node_pc = "drifts"
    /\ CurDrift.type \in DriftTypes
    /\ InDesiredState(CurDrift)

\* C15: a handler applied to a node already in the desired state (as on a
\* second application) returns success and performs no mutating action.
C15_HandlersIdempotent ==
    [][HandlerOnDesiredState =>
          /\ commands' = commands
          /\ Len(remediation_results') = Len(remediation_results) + 1
          /\ remediation_results'[Len(remediation_results')].success]_vars

\* rollback_node(n) ran to its end (it logged rollback_complete).
RollbackCompleted(n) ==
    \E i \in 1..Len(remediation_log) :
        remediation_log[i] = Event("rollback_complete", n, "info")

\* The files create_backup captured for node n (services.status is written by
\* the backup, not captured).
CapturedFiles(n) == {b \in backups[n] : b.path # ServicesStatusFile}

Logged(type, n) ==
    \E i \in 1..Len(remediation_log) :
        remediation_log[i].type = type /\ remediation_log[i].node = n

\* The run of the scenario: one file_change on one node, restored from the
\* node's backup, the node past its post-validation.
SingleFileRestoredRun ==
    /\ pc = "done"
    /\ Len(detection_report.detections) = 1
    /\ detection_report.detections[1].type = "file_change"
    /\ \E n \in DOMAIN node_exit :
          Logged("file_restored", n) /\ node_exit[n] \in {"complete", "partial"}

\* C17: with canary disabled every node with drift is a canary node and the
\* full phase processes no node; a single node with one file_change restored
\* from backup that passes post-validation ends complete and the report counts
\* one remediated node.
C17_CanaryDisabledSinglePhase ==
    ~config.canary_enabled =>
        /\ pc \notin {"start", "canary_select"} =>
              canary_nodes = Keys(nodes_with_drifts)
        /\ "full" \notin visited
        /\ SingleFileRestoredRun =>
              /\ \A n \in DOMAIN node_exit : node_exit[n] = "complete"
              /\ report.generated
              /\ report.total_nodes_remediated = 1

\* C17 witness: the scenario's run, finished, with canary disabled.
C17_Witness ==
    /\ ~config.canary_enabled
    /\ SingleFileRestoredRun
    /\ "full_select" \in visited
    /\ report.generated

\* rollback_node(n) was called: each of its paths logs one of these events.
RollbackInvoked(n) ==
    \/ Logged("rollback_complete", n)
    \/ Logged("rollback_error", n)
    \/ Logged("rollback_failed", n)

RestoreCommands(n) ==
    {i \in 1..Len(commands) : commands[i].tool = "copy2" /\ commands[i].node = n}

\* C18: for a node whose post-validation failed or raised, rollback_node is
\* invoked exactly when automatic_on_failure is configured (no restore is done
\* otherwise); either way the node is not in remediated_nodes, remediate_node
\* returned False and a canary node is recorded as a failure for the gate.
C18_PostValidationFailure ==
    \A n \in DOMAIN node_exit :
        node_exit[n] = "post_validation_failed" =>
            /\ config.automatic_on_failure <=> RollbackInvoked(n)
            /\ ~config.automatic_on_failure => RestoreCommands(n) = {}
            /\ n \notin SeqToSet(remediated_nodes)
            /\ ~node_result[n]
            /\ n \in CanarySet =>
                  \E i \in 1..Len(canary_results) : canary_results[i] = <<n, FALSE>>

\* C18 witness: a canary node rolled back from its backup after a failed
\* post-validation.
C18_Witness ==
    \E n \in DOMAIN node_exit :
        /\ node_exit[n] = "post_validation_failed"
        /\ n \in CanarySet
        /\ Logged("rollback_complete", n)
        /\ RestoreCommands(n) # {}

\* No handler ran on node n and nothing was changed on its behalf.
NodeUntouchedByHandlers(n) ==
    /\ \A i \in 1..Len(remediation_log) :
          remediation_log[i].node = n => remediation_log[i].type \notin HandlerEventTypes
    /\ \A i \in 1..Len(commands) : commands[i].node # n
    /\ n \notin DOMAIN results_files

\* A pre-validation that finds a required service inactive leaves the node at
\* once, without changing the machine.
PreValidationFailureAborts ==
    (node_pc = "pre_validate" /\ ~ValidationPassed) =>
        /\ CurNode \in DOMAIN node_exit'
        /\ node_exit'[CurNode] = "pre_validation_failed"
        /\ UNCHANGED <<files, services, packages, users, commands, remediated_nodes>>

\* C19: when the configured pre-validation fails or raises, no drift handler
\* runs on the node, the node is not changed, and it is not counted as
\* remediated.
C19_PreValidationFailureTouchesNothing ==
    /\ [](\A n \in DOMAIN node_exit :
             node_exit[n] = "pre_validation_failed" =>
                /\ config.pre_remediation_validation
                /\ NodeUntouchedByHandlers(n)
                /\ n \notin SeqToSet(remediated_nodes)
                /\ ~node_result[n])
    /\ [][PreValidationFailureAborts]_vars

\* C19 witness: a node left by a pre-validation that found the required service
\* inactive, with a drift that was never handled.
C19_Witness ==
    \E n \in DOMAIN node_exit :
        /\ node_exit[n] = "pre_validation_failed"
        /\ Logged("validation_pre_remediation", n)
        /\ ~ValidationPassed
        /\ DriftsOf(nodes_with_drifts, n) # <<>>

Recognised(d) == d.type \in DriftTypes

ResultDrifts(results) == [i \in 1..Len(results) |-> results[i].drift]

\* The events the handlers of recognised drifts log, one per call.
HandlerCalls(n) ==
    {i \in 1..Len(remediation_log) :
        /\ remediation_log[i].node = n
        /\ remediation_log[i].type \in HandlerEventTypes \ {"unknown_drift_type"}}

\* C20: the handler of every recognised drift of the node's list is called
\* exactly once, in list order, whatever the earlier handlers returned, and the
\* per-drift results hold exactly one entry per such drift.
C20_EveryDriftHandledOnce ==
    /\ node_pc = "drifts" =>
          ResultDrifts(remediation_results)
             = SelectSeq(SubSeq(CurDrifts, 1, drift_idx - 1), Recognised)
    /\ node_pc \in {"post_validate", "rollback", "finish"} =>
          /\ ResultDrifts(remediation_results) = SelectSeq(CurDrifts, Recognised)
          /\ Cardinality(HandlerCalls(CurNode)) = Len(remediation_results)
    /\ \A n \in DOMAIN results_files :
          /\ ResultDrifts(results_files[n])
                = SelectSeq(DriftsOf(nodes_with_drifts, n), Recognised)
          /\ Cardinality(HandlerCalls(n)) = Len(results_files[n])

\* C20 witness: saved results of a node with two recognised drifts whose first
\* handler failed.
C20_Witness ==
    \E n \in DOMAIN results_files :
        /\ Len(results_files[n]) = 2
        /\ ~results_files[n][1].success

PhaseEdges ==
    {<<"start", "canary_select">>, <<"start", "done">>, <<"canary_select", "canary">>,
     <<"canary", "gate">>, <<"gate", "wait">>, <<"gate", "full_select">>,
     <<"gate", "report">>, <<"wait", "full_select">>, <<"full_select", "full">>,
     <<"full_select", "report">>, <<"full", "report">>, <<"report", "done">>}

\* C22: the phases occur in the order canary, gate, wait, full, report: a
\* non-canary node is touched (and the full phase entered) only after every
\* canary node returned, the gate passed and the configured nonzero wait was
\* taken, and the report is generated only when no node is left to remediate.
C22_PhaseOrder ==
    /\ []((TouchedNodes \ CanarySet # {} \/ pc \in {"full_select", "full"}) =>
             /\ canary_success = <<TRUE>>
             /\ CanarySet \subseteq DOMAIN node_result
             /\ config.wait_time_minutes > 0 => "wait" \in visited)
    /\ [](report.generated =>
             /\ node_pc = "idle"
             /\ "full_select" \in visited => GroupedNodes \subseteq DOMAIN node_result)
    /\ [][pc' # pc => <<pc, pc'>> \in PhaseEdges]_vars

\* C22 witness: the full phase at work after a configured wait.
C22_Witness ==
    /\ pc = "full"
    /\ config.wait_time_minutes > 0
    /\ "wait" \in visited
    /\ node_pc # "idle"

\* The nodes whose remediation has started and has not returned.
NodesInProgress ==
    (TouchedNodes \ DOMAIN node_result)
      \cup (IF node_pc # "idle" THEN {CurNode} ELSE {})

\* C23 (as stated): the nodes of a phase are remediated concurrently by a pool
\* of workers: while the first node of a phase of two or more nodes is in
\* remediation, another node of the phase is in remediation too.
C23_NodesRemediatedConcurrently ==
    (pc \in {"canary", "full"} /\ Len(work) >= 2 /\ widx = 1) =>
        Cardinality(NodesInProgress) >= 2

\* C23 (amended): the nodes of a phase are remediated one at a time in list
\* order: at most one node is in remediation, the nodes before it have
\* returned, the nodes after it are untouched, and the events of different
\* nodes are not interleaved.
C23_NodesRemediatedOneAtATime ==
    /\ Cardinality(NodesInProgress) <= 1
    /\ node_pc # "idle" =>
          /\ \A i \in 1..(widx - 1) : work[i] \in DOMAIN node_result
          /\ \A i \in (widx + 1)..Len(work) : work[i] \notin TouchedNodes
    /\ \A i, k \in 1..Len(remediation_log) :
          (i < k /\ remediation_log[i].node = remediation_log[k].node)
             => remediation_log[i + 1].node = remediation_log[i].node

\* C23 witness: the second node of a phase in remediation after the first
\* has returned.
C23_Witness ==
    /\ pc \in {"canary", "full"}
    /\ Len(work) >= 2
    /\ widx = 2
    /\ node_pc # "idle"
    /\ Logged("validation_pre_remediation", work[2])

TerminalEventTypes ==
    {"remediation_complete", "remediation_partial", "remediation_aborted",
     "remediation_failed_validation"}

\* C24: a node is remediated at most once per run: the node in remediation has
\* not returned from remediate_node before, the full phase holds no canary
\* node, and no node has two terminal events or two entries in remediated_nodes.
C24_NodeRemediatedAtMostOnce ==
    /\ node_pc # "idle" => CurNode \notin DOMAIN node_result
    /\ pc = "full" => SeqToSet(work) \cap CanarySet = {}
    /\ NoDuplicates(remediated_nodes)
    /\ \A i, j \in 1..Len(remediation_log) :
          (/\ remediation_log[i].node = remediation_log[j].node
           /\ remediation_log[i].type \in TerminalEventTypes
           /\ remediation_log[j].type \in TerminalEventTypes) => i = j

\* C24 witness: the full phase was entered after a canary phase that passed the
\* gate with a failed canary node.
C24_Witness ==
    /\ "full_select" \in visited
    /\ pc \in {"full", "report", "done"}
    /\ \E n \in CanarySet : ~node_result[n]

\* C25: an error on one file does not stop rollback_node: when the rollback
\* ended with an error, every captured file but the failing one was copied back.
C25_RollbackIsBestEffort ==
    \A n \in DOMAIN backups :
        Logged("rollback_error", n) =>
            Cardinality(RestoreCommands(n)) >= Cardinality(backups[n]) - 1

\* The machine as it was when the run started.
MachineAtStart == MachineOf(detection_report.detections)

\* C26: after a completed rollback of node n, with no other node having acted
\* since n's backup, every managed file, service, package and user account has
\* the value it had when the backup was taken.
C26_RollbackRestoresNodeState ==
    \A n \in DOMAIN backups :
        (/\ RollbackCompleted(n)
         /\ \A i \in 1..Len(commands) : commands[i].node = n) =>
            /\ files[ManagedFile] = MachineAtStart.files[ManagedFile]
            /\ services = MachineAtStart.services
            /\ packages = MachineAtStart.packages
            /\ users = MachineAtStart.users

\* A step of validate_node together with remediate_node's test of its result.
ValidationStep == node_pc \in {"pre_validate", "post_validate"}

\* validate_node built its results (it logged validation_<type>, not
\* validation_failed).
ValidationReturnedResults ==
    remediation_log'[Len(remediation_log) + 1].type
        \in {"validation_pre_remediation", "validation_post_remediation"}

\* remediate_node goes on past the validation.
ValidationAccepted ==
    \/ node_pc = "pre_validate" /\ node_pc' = "drifts" /\ widx' = widx
    \/ node_pc = "post_validate" /\ node_pc' = "finish"

\* C27: validate_node's passed flag is the conjunction of 'service is active'
\* over required_services whatever the disk and memory checks report, and
\* validation changes nothing on the node.
C27_ValidationPassedIsServicesActive ==
    [][ValidationStep =>
          /\ UNCHANGED <<files, services, packages, users, commands>>
          /\ ValidationReturnedResults =>
                (ValidationAccepted <=> \A s \in required_services : services[s] = "active")
          /\ ~ValidationReturnedResults => ~ValidationAccepted]_vars

\* C27 witness: a node that passed both validations.
C27_Witness ==
    \E n \in DOMAIN node_exit :
        /\ node_exit[n] = "complete"
        /\ Logged("validation_pre_remediation", n)
        /\ Logged("validation_post_remediation", n)
        /\ \A s \in required_services : services[s] = "active"

\* The path lies below one of the managed directories.
InManagedRoot(path) == AncestorsOf(path) \cap managed_dirs # {}

\* C28: a file_change whose path is outside every managed root is skipped: its
\* handler reports failure and no cp or ansible-playbook is run for it.
C28_UnmanagedFileSkipped ==
    /\ \A r \in AllResults :
          (r.drift.type = "file_change" /\ ~InManagedRoot(r.drift.target)) => ~r.success
    /\ \A i \in 1..Len(commands) :
          commands[i].tool \in {"cp", "ansible-playbook"} => InManagedRoot(commands[i].target)

\* The commands a step issues, and the handler result it records.
NewCommands == SubSeq(commands', Len(commands) + 1, Len(commands'))

NewResult == remediation_results'[Len(remediation_results')]

ServiceStep == node_pc = "drifts" /\ CurDrift.type = "service_status_change"

\* C29: the service handler reports success only if the observed status is the
\* desired one: on the first query, with no command issued, or on the re-query
\* after a transition whose commands (start, then enable) all succeeded; a
\* failed command or a differing re-queried status is a failure.
C29_ServiceSuccessMeansObservedActive ==
    [][ServiceStep =>
          LET service == CurDrift.target IN
          /\ Len(remediation_results') = Len(remediation_results) + 1
          /\ services[service] = "active" =>
                NewResult.success /\ NewCommands = <<>>
          /\ services[service] # "active" =>
                /\ Len(NewCommands) \in 1..2
                /\ NewCommands[1].verb = "start"
                /\ Len(NewCommands) = 2 => NewCommands[1].ok /\ NewCommands[2].verb = "enable"
                /\ NewResult.success <=>
                      /\ Len(NewCommands) = 2
                      /\ \A i \in 1..Len(NewCommands) : NewCommands[i].ok
                      /\ services'[service] = "active"]_vars

\* C29 witness: a service the handler started, enabled and found active.
C29_Witness ==
    /\ \E r \in AllResults : r.drift.type = "service_status_change" /\ r.success
    /\ \E i \in 1..Len(commands) :
          commands[i].tool = "systemctl" /\ commands[i].verb = "enable" /\ commands[i].ok

PackageStep == node_pc = "drifts" /\ CurDrift.type \in {"package_added", "package_removed"}

BackupEvents(n) ==
    {i \in 1..Len(remediation_log) :
        /\ remediation_log[i].node = n
        /\ remediation_log[i].type \in {"backup_created", "backup_failed"}}

\* C31: a backup, once created, is never deleted or modified by a later step of
\* the run (handlers, validation, rollback, report), and create_backup runs at
\* most once per node.
C31_BackupWrittenOnce ==
    /\ [](\A n \in AllNodes : Cardinality(BackupEvents(n)) <= 1)
    /\ [][\A n \in DOMAIN backups :
              n \in DOMAIN backups' /\ backups'[n] = backups[n]]_vars

\* C31 witness: a finished run in which a node's backup was read by the file
\* handler and by a completed rollback, and still holds the captured file.
C31_Witness ==
    /\ pc = "done"
    /\ report.generated
    /\ \E n \in DOMAIN backups :
          /\ Logged("file_restored", n)
          /\ RollbackCompleted(n)
          /\ \E b \in backups[n] : b.path = ManagedFile /\ b.content = "drifted"

\* The return statements of remediate_node.
NodeExits == {"backup_failed", "pre_validation_failed", "post_validation_failed",
              "complete", "partial"}

\* run() has returned and remediate_node has returned for every node it was
\* called for.
RunTerminated ==
    /\ pc = "done"
    /\ result \in {<<TRUE>>, <<FALSE>>}
    /\ node_pc = "idle"
    /\ \A n \in TouchedNodes : n \in DOMAIN node_exit /\ node_exit[n] \in NodeExits

HandlerSucceededOn(n) ==
    /\ n \in DOMAIN results_files
    /\ \E i \in 1..Len(results_files[n]) : results_files[n][i].success

\* C33: a node is listed in remediated_nodes, or counted as a success by the
\* canary gate, only if at least one drift handler ran and succeeded on it; a
\* node with only unrecognised drift types is not reported as remediated.
C33_RemediatedMeansHandlerSucceeded ==
    \A n \in AllNodes :
        (\/ n \in SeqToSet(remediated_nodes)
         \/ \E i \in 1..Len(canary_results) : canary_results[i] = <<n, TRUE>>)
            => HandlerSucceededOn(n)

\* remediate_node is about to call rollback_node: post-validation failed and
\* automatic_on_failure is configured.
RollbackStep == node_pc = "rollback"

\* C34: whenever post-validation fails with automatic rollback configured, the
\* node has a backup and every file it captured holds its backed-up content
\* when remediate_node returns, also without backup_before_remediation.
C34_RolledBackMeansRestored ==
    [][RollbackStep =>
          /\ CurNode \in DOMAIN backups
          /\ \A b \in CapturedFiles(CurNode) : files'[b.path] = b.content]_vars

\* The detections of a report that belong to node n, in the report's order.
DetectionsOfNode(dets, n) ==
    LET Belongs(d) == (IF "node" \in DOMAIN d THEN d.node ELSE "unknown") = n
    IN SelectSeq(dets, Belongs)

RECURSIVE GroupedCount(_)
GroupedCount(g) == IF g = <<>> THEN 0 ELSE Len(Head(g).drifts) + GroupedCount(Tail(g))

Grouped == pc # "start" /\ detection_report.loaded /\ config.enabled

\* C35: the grouping of run() puts every detection in exactly one node's list,
\* that of the node its 'node' field names ('unknown' without the field), keeps
\* the report's order within each node, and groups as many events as the
\* report has detections.
C35_GroupingPartitionsDetections ==
    Grouped =>
        LET dets == detection_report.detections
            g == nodes_with_drifts IN
        /\ NoDuplicates(Keys(g))
        /\ \A i \in 1..Len(g) :
              g[i].drifts # <<>> /\ g[i].drifts = DetectionsOfNode(dets, g[i].node)
        /\ \A k \in 1..Len(dets) :
              \E i \in 1..Len(g) : g[i].node = NodeOf(dets[k])
        /\ GroupedCount(g) = Len(dets)

\* C35 witness: a grouped report of three detections, the second without a
\* node field, the first and third for the same node and different.
C35_Witness ==
    /\ Grouped
    /\ Len(detection_report.detections) = 3
    /\ "node" \notin DOMAIN detection_report.detections[2]
    /\ NodeOf(detection_report.detections[1]) = "n1"
    /\ NodeOf(detection_report.detections[3]) = "n1"
    /\ detection_report.detections[1] # detection_report.detections[3]
    /\ Keys(nodes_with_drifts) = <<"n1", "unknown">>

\* The last detector run started without a saved state (self.previous_state
\* is {}).
StartedWithoutState == detector.runs >= 1 /\ DOMAIN detector.previous_state = {}

\* C36: a detection run started with no previously saved state reports no
\* drift, whatever the state of the machine.
C36_FirstRunReportsNoDrift ==
    StartedWithoutState => detection_report.detections = <<>>

\* A detector run is taken.
DetectionStep == detector'.runs = detector.runs + 1

\* The previous detector run saved its state and the machine is as that run
\* saw it.
UnchangedSinceSavedRun ==
    /\ detector.runs >= 1
    /\ detector.saved
    /\ Observable = detector.observed

\* C37: a detection run that follows a run which saved its state, on an
\* unchanged machine, reports zero detections.
C37_UnchangedSystemReportsNothing ==
    [][(DetectionStep /\ UnchangedSinceSavedRun)
          => detection_report'.detections = <<>>]_vars

====
